---- MODULE Spec2Model ----
(***************************************************************************)
(* A model of deepdreamer.py: the gradient ascent step (_make_step), the   *)
(* octave pyramid engine (_deepdream), the zoom dream loop (deepdream),    *)
(* the frame pipeline (deepdream_video) and the network selection          *)
(* (_select_network, list_layers).                                         *)
(*                                                                         *)
(* Numbers.  The program computes in float32.  A sample is modelled as a   *)
(* record: either a finite fixed-point number (an integer count of         *)
(* 1/Unit, every division rounding to the nearest count, as a float        *)
(* division rounds to the nearest float) or NaN, which every arithmetic    *)
(* operation propagates and which np.clip leaves alone.  The caffe         *)
(* network is external: the gradient it returns for one evaluation is an   *)
(* input, drawn from a small family of finite gradients that includes the  *)
(* all-zero one.                                                           *)
(***************************************************************************)
EXTENDS Integers, Sequences, FiniteSets, TLC

VARIABLES
    \* --- one call of _make_step, position by position
    st_pc, st_in, st_data, st_ox, st_oy, st_g, st_clip,
    \* --- one call of _deepdream
    e_pc, e_cfg, e_base, e_octaves, e_detail, e_src, e_octave, e_i,
    e_shift, e_inflight, e_steps, e_log, e_result,
    \* --- deepdream_video
    v_pc, v_cfg, v_images, v_k, v_disk, v_orig, v_net, v_draws, v_out, v_writes,
    \* --- deepdream / list_layers / deepdream_video entry, and the zoom loop
    d_pc, d_cfg, d_i, d_img, d_disk, d_img_pool, d_net, d_device, d_error,
    d_saves,
    \* --- the output file name
    n_pc, n_path, n_end, n_i, n_name

stepVars  == <<st_pc, st_in, st_data, st_ox, st_oy, st_g, st_clip>>
engVars   == <<e_pc, e_cfg, e_base, e_octaves, e_detail, e_src, e_octave, e_i,
               e_shift, e_inflight, e_steps, e_log, e_result>>
videoVars == <<v_pc, v_cfg, v_images, v_k, v_disk, v_orig, v_net, v_draws, v_out,
               v_writes>>
dreamVars == <<d_pc, d_cfg, d_i, d_img, d_disk, d_img_pool, d_net, d_device,
               d_error, d_saves>>
nameVars  == <<n_pc, n_path, n_end, n_i, n_name>>
vars == <<stepVars, engVars, videoVars, dreamVars, nameVars>>
notStep  == <<engVars, videoVars, dreamVars, nameVars>>
notEng   == <<stepVars, videoVars, dreamVars, nameVars>>
notVideo == <<stepVars, engVars, dreamVars, nameVars>>
notDream == <<stepVars, engVars, videoVars, nameVars>>
notName  == <<stepVars, engVars, videoVars, dreamVars>>

-----------------------------------------------------------------------------
(* Bounds of the model *)

\* largest jitter magnitude passed to _make_step (the code's default is 32)
MaxJitter == 3
\* largest octave_n
MaxOctaves == 2
\* largest iter_n
MaxIter == 2
\* largest number of frames ffmpeg extracts from the video
MaxFrames == 2
\* longest target-layer name, in characters
MaxLayerLen == 3
\* largest irange of the zoom loop
MaxRange == 3

-----------------------------------------------------------------------------
(* Samples: float32 values *)

\* step_size = 1.5 = StepSizeNum / StepSizeDen
StepSizeNum == 3
StepSizeDen == 2
\* a sample counts 1/Unit, so that step_size is a whole count
Unit == StepSizeDen
\* _select_network: CAFFE_MEAN, one entry per channel of the oracle-space tensor
CAFFE_MEAN == <<104, 116, 122>>
\* the top of the display range, in np.clip(src.data, -bias, 255 - bias)
PixelMax == 255

Fin(x) == [nan |-> FALSE, v |-> x]
NaNVal == [nan |-> TRUE, v |-> 0]

Abs(x) == IF x < 0 THEN -x ELSE x
Min(a, b) == IF a < b THEN a ELSE b
Max(a, b) == IF a > b THEN a ELSE b

\* the integer nearest to p / q (q > 0), halves away from zero
RoundDiv(p, q) ==
    IF p >= 0 THEN (2 * p + q) \div (2 * q) ELSE -((2 * (-p) + q) \div (2 * q))

\* Python 3 round(p / q) for p >= 0, q > 0: halves go to the even neighbour
RoundHalfEven(p, q) ==
    LET f == p \div q
        r2 == 2 * (p % q)
    IN  IF r2 < q THEN f
        ELSE IF r2 > q THEN f + 1
        ELSE IF f % 2 = 0 THEN f ELSE f + 1

VAdd(a, b) == IF a.nan \/ b.nan THEN NaNVal ELSE Fin(a.v + b.v)
VSub(a, b) == IF a.nan \/ b.nan THEN NaNVal ELSE Fin(a.v - b.v)
\* np.clip on one sample: the comparisons with NaN are false, NaN stays
VClip(a, lo, hi) == IF a.nan THEN a ELSE Fin(Min(Max(a.v, lo), hi))

-----------------------------------------------------------------------------
(* Tensors: t[c][y][x], channel, row, column *)

Chan(t) == Len(t)
Rows(t) == Len(t[1])
Cols(t) == Len(t[1][1])
Shape(t) == <<Rows(t), Cols(t)>>

\* The value t.  The comparison makes TLC compute a function's values once,
\* here, and not again at every later read of one of them.
Eval(t) == LET v == t IN IF v = v THEN v ELSE v

TAdd(a, b) ==
    Eval([c \in 1..Chan(a) |-> [y \in 1..Rows(a) |-> [x \in 1..Cols(a) |->
        VAdd(a[c][y][x], b[c][y][x])]]])
TSub(a, b) ==
    Eval([c \in 1..Chan(a) |-> [y \in 1..Rows(a) |-> [x \in 1..Cols(a) |->
        VSub(a[c][y][x], b[c][y][x])]]])

\* np.zeros_like
ZerosLike(t) ==
    Eval([c \in 1..Chan(t) |-> [y \in 1..Rows(t) |-> [x \in 1..Cols(t) |-> Fin(0)]]])

HasNaN(t) == \E c \in 1..Chan(t), y \in 1..Rows(t), x \in 1..Cols(t) : t[c][y][x].nan

-----------------------------------------------------------------------------
(* _make_step, lines 60-82 *)

RECURSIVE SumSeq(_)
SumSeq(s) == IF s = <<>> THEN 0 ELSE s[1] + SumSeq(Tail(s))

\* np.abs(g).sum() of a gradient g[c][y][x] of integers
SumAbs(g) ==
    SumSeq([c \in 1..Len(g) |->
        SumSeq([y \in 1..Len(g[c]) |->
            SumSeq([x \in 1..Len(g[c][y]) |-> Abs(g[c][y][x])])])])

\* a shift along the last axis that fills with zero instead of wrapping around
RollColsZeroFill(t, k) ==
    Eval([c \in 1..Chan(t) |-> [y \in 1..Rows(t) |-> [x \in 1..Cols(t) |->
        IF x - k \in 1..Cols(t) THEN t[c][y][x - k] ELSE Fin(0)]]])

\* np.roll(t, k, -1): the sample at column x moves to column x + k, wrapping around
RollCols(t, k) ==
    Eval([c \in 1..Chan(t) |-> [y \in 1..Rows(t) |-> [x \in 1..Cols(t) |->
        t[c][y][((x - 1 - k) % Cols(t)) + 1]]]])

\* np.roll(t, k, -2)
RollRows(t, k) ==
    Eval([c \in 1..Chan(t) |-> [y \in 1..Rows(t) |-> [x \in 1..Cols(t) |->
        t[c][((y - 1 - k) % Rows(t)) + 1][x]]]])

\* line 69 (and line 78 with the offsets negated)
Jitter(t, ox, oy) == RollRows(RollCols(t, ox), oy)

\* line 78
Unjitter(t, ox, oy) == Jitter(t, -ox, -oy)

\* step_size / np.abs(g).mean() * g, line 76: with an all-zero g the quotient
\* is inf and inf * 0 is NaN in every element
AscentDelta(g) ==
    LET s == SumAbs(g)
        n == Len(g) * Len(g[1]) * Len(g[1][1])
    IN  Eval([c \in 1..Len(g) |-> [y \in 1..Len(g[1]) |-> [x \in 1..Len(g[1][1]) |->
            IF s = 0 THEN NaNVal
            ELSE Fin(RoundDiv(StepSizeNum * Unit * n * g[c][y][x],
                              StepSizeDen * s))]]])

\* line 76
Ascend(t, g) == TAdd(t, AscentDelta(g))

ClipLo(c) == -(CAFFE_MEAN[c] * Unit)
ClipHi(c) == (PixelMax - CAFFE_MEAN[c]) * Unit

\* lines 81-82: np.clip(src.data, -bias, 255 - bias), bias of shape (3, 1, 1)
Clip(t) ==
    Eval([c \in 1..Chan(t) |-> [y \in 1..Rows(t) |-> [x \in 1..Cols(t) |->
        VClip(t[c][y][x], ClipLo(c), ClipHi(c))]]])

\* the whole of _make_step on the data of net.blobs["data"], for the jitter
\* offsets drawn at line 66 and the gradient g that net.backward leaves in src.diff
_make_step(data, ox, oy, g, clip) ==
    LET stepped == Unjitter(Ascend(Jitter(data, ox, oy), g), ox, oy)
    IN  IF clip THEN Clip(stepped) ELSE stepped

\* The gradients the network may return for a c x h x w input.
GradKinds == {"zero", "ones", "hot", "neg"}
Grad(kind, c, h, w) ==
    [cc \in 1..c |-> [y \in 1..h |-> [x \in 1..w |->
        CASE kind = "zero" -> 0
          [] kind = "ones" -> 1
          [] kind = "hot"  -> IF cc = 1 /\ y = 1 /\ x = 1 THEN 1 ELSE 0
          [] kind = "neg"  -> IF cc = c /\ y = h /\ x = w THEN -2 ELSE 0]]]
GradOf(kind, t) == Grad(kind, Chan(t), Rows(t), Cols(t))

JitterRange(jitter) == (-jitter)..jitter

-----------------------------------------------------------------------------
(* One call of _make_step, position by position *)

\* the tensors a step may find in net.blobs["data"]: any shape, any content
StepShapes == {<<1, 1>>, <<1, 2>>, <<2, 2>>, <<2, 3>>}
StepContents == {"ramp", "wild"}
StepTensor(kind, h, w) ==
    Eval([c \in 1..Len(CAFFE_MEAN) |-> [y \in 1..h |-> [x \in 1..w |->
        IF kind = "ramp" THEN Fin((9 * c + 3 * y + x - 20) * Unit)
               ELSE IF (c + y + x) % 2 = 0 THEN Fin(400 * Unit) ELSE Fin(-400 * Unit)]]])

IdleStep ==
    /\ st_pc = "idle" /\ st_in = <<>> /\ st_data = <<>>
    /\ st_ox = 0 /\ st_oy = 0 /\ st_g = <<>> /\ st_clip = FALSE

StepInit ==
    /\ st_pc = "start"
    /\ \E kind \in StepContents, sh \in StepShapes :
           st_in = StepTensor(kind, sh[1], sh[2])
    /\ st_data = st_in
    /\ st_ox = 0 /\ st_oy = 0 /\ st_g = <<>>
    /\ st_clip \in BOOLEAN

\* lines 66-69
StepShift ==
    /\ st_pc = "start"
    /\ \E ox \in JitterRange(MaxJitter), oy \in JitterRange(MaxJitter) :
           /\ st_ox' = ox
           /\ st_oy' = oy
           /\ st_data' = Jitter(st_data, ox, oy)
    /\ st_pc' = "shifted"
    /\ UNCHANGED <<st_in, st_g, st_clip>>
    /\ UNCHANGED notStep

\* lines 71-76
StepAscend ==
    /\ st_pc = "shifted"
    /\ \E kind \in GradKinds :
           /\ st_g' = GradOf(kind, st_data)
           /\ st_data' = Ascend(st_data, st_g')
    /\ st_pc' = "ascended"
    /\ UNCHANGED <<st_in, st_ox, st_oy, st_clip>>
    /\ UNCHANGED notStep

\* line 78
StepUnshift ==
    /\ st_pc = "ascended"
    /\ st_data' = Unjitter(st_data, st_ox, st_oy)
    /\ st_pc' = "unshifted"
    /\ UNCHANGED <<st_in, st_ox, st_oy, st_g, st_clip>>
    /\ UNCHANGED notStep

\* lines 80-82
StepClip ==
    /\ st_pc = "unshifted"
    /\ st_data' = IF st_clip THEN Clip(st_data) ELSE st_data
    /\ st_pc' = "done"
    /\ UNCHANGED <<st_in, st_ox, st_oy, st_g, st_clip>>
    /\ UNCHANGED notStep

-----------------------------------------------------------------------------
(* The codec adapters, lines 52-57, and scipy.ndimage.zoom with order = 1 *)

\* an image is img[y][x][c]; np.rollaxis(img, 2)[::-1] - mean, the mean (3, 1, 1)
_preprocess(img) ==
    Eval([c \in 1..Len(CAFFE_MEAN) |-> [y \in 1..Len(img) |-> [x \in 1..Len(img[1]) |->
        VSub(img[y][x][Len(CAFFE_MEAN) + 1 - c], Fin(CAFFE_MEAN[c] * Unit))]]])

\* np.dstack((t + mean)[::-1])
_deprocess(t) ==
    [y \in 1..Rows(t) |-> [x \in 1..Cols(t) |-> [c \in 1..Chan(t) |->
        VAdd(t[Chan(t) + 1 - c][y][x], Fin(CAFFE_MEAN[Chan(t) + 1 - c] * Unit))]]]

\* zoom's output length of an axis of length n under the factor num / den:
\* int(round(n * factor))
ZoomDim(n, num, den) == RoundHalfEven(n * num, den)

\* The order-1 sample at output index o (from 0) of an axis resampled from
\* length n to length m: scipy maps o to the input coordinate
\* o * (n - 1) / (m - 1) and interpolates between its two neighbours.  The
\* result is the set of <<input index (from 1), weight>> and the weights' sum.
AxisDen(n, m) == IF m > 1 /\ n > 1 THEN m - 1 ELSE 1
AxisTaps(o, n, m) ==
    LET den == AxisDen(n, m)
        pos == IF m > 1 /\ n > 1 THEN o * (n - 1) ELSE 0
        f   == pos \div den
        r   == pos % den
    IN  IF r = 0 THEN {<<f + 1, den>>} ELSE {<<f + 1, den - r>>, <<f + 2, r>>}

RECURSIVE SumTaps(_, _, _, _)
SumTaps(t, c, taps, acc) ==
    IF taps = {} THEN acc
    ELSE LET p == CHOOSE q \in taps : TRUE
         IN  SumTaps(t, c, taps \ {p}, acc + p[3] * t[c][p[1]][p[2]].v)

\* zoom(t, (1, numH / denH, numW / denW), order=1)
Zoom(t, numH, denH, numW, denW) ==
    LET h == Rows(t)
        w == Cols(t)
        oh == ZoomDim(h, numH, denH)
        ow == ZoomDim(w, numW, denW)
    IN  Eval([c \in 1..Chan(t) |-> [y \in 1..oh |-> [x \in 1..ow |->
            LET taps == {<<ty[1], tx[1], ty[2] * tx[2]>> :
                             ty \in AxisTaps(y - 1, h, oh),
                             tx \in AxisTaps(x - 1, w, ow)}
            IN  IF \E p \in taps : t[c][p[1]][p[2]].nan THEN NaNVal
                ELSE Fin(RoundDiv(SumTaps(t, c, taps, 0),
                                  AxisDen(h, oh) * AxisDen(w, ow)))]]])

-----------------------------------------------------------------------------
(* _deepdream, lines 85-139 *)

\* lines 105-108: k more levels, each the last one zoomed by 1 / octave_scale,
\* octave_scale = num / den
RECURSIVE BuildOctaves(_, _, _, _)
BuildOctaves(octaves, k, num, den) ==
    IF k <= 0 THEN octaves
    ELSE BuildOctaves(Append(octaves, Zoom(octaves[Len(octaves)], den, num, den, num)),
                      k - 1, num, den)

\* line 115: enumerate(octaves[::-1]), octave counted from 0
Level(octaves, octave) == octaves[Len(octaves) - octave]

\* a detail buffer carried to the next level as it is
UpscaleDetailSkipped(detail, h, w) == detail

\* lines 119-120
UpscaleDetail(detail, h, w) == Zoom(detail, h, Rows(detail), w, Cols(detail))

\* a step loop that runs once more than iter_n
MoreStepsInclusive(i, iter_n) == i <= iter_n

\* line 125: for i in range(iter_n)
MoreSteps(i, iter_n) == i < iter_n

\* an input binding that adds to what the blob already holds
BindInputAccumulate(src, octave_base, detail) ==
    IF Shape(src) = Shape(octave_base)
    THEN TAdd(src, TAdd(octave_base, detail))
    ELSE TAdd(octave_base, detail)

\* lines 122-123: src.reshape(1, 3, h, w); src.data[0] = octave_base + detail.
\* What the blob held before is dropped.
BindInput(src, octave_base, detail) == TAdd(octave_base, detail)

\* the spatial sizes of the pyramid's levels, without their data
RECURSIVE PyramidShapes(_, _, _, _)
PyramidShapes(shapes, k, num, den) ==
    IF k <= 0 THEN shapes
    ELSE LET last == shapes[Len(shapes)]
         IN  PyramidShapes(Append(shapes, <<ZoomDim(last[1], den, num),
                                            ZoomDim(last[2], den, num)>>),
                           k - 1, num, den)

\* The images and settings of the model's engine runs.
EngineShapes == {<<2, 3>>, <<3, 3>>}
EngineContents == {"gray", "ramp"}
Image(kind, h, w) ==
    [y \in 1..h |-> [x \in 1..w |-> [c \in 1..Len(CAFFE_MEAN) |->
        IF kind = "gray" THEN Fin(128 * Unit)
        ELSE IF y = 1 /\ x = 1 THEN (IF c = 1 THEN Fin(0) ELSE Fin(PixelMax * Unit))
        ELSE Fin(((17 * y + 5 * x + 60 * c) % (PixelMax + 1)) * Unit)]]]
\* octave_scale as <<numerator, denominator>>: the default 1.4, and 2
OctaveScales == {<<7, 5>>, <<2, 1>>}
OracleKinds == {"zero", "ones", "hot"}
\* the draws <<ox, oy>> of line 66 the engine's steps choose among; the engine
\* is always called with the default jitter of 32
EngineDraws == {<<0, 0>>, <<1, 0>>, <<-1, 2>>, <<32, -32>>}
EngineConfigs ==
    [iter_n : 0..MaxIter, octave_n : 1..MaxOctaves, octave_scale : OctaveScales,
     clip : BOOLEAN, oracle : OracleKinds]

\* every level of the pyramid has at least one row and one column
Buildable(h, w, cfg) ==
    \A sh \in {PyramidShapes(<<<<h, w>>>>, cfg.octave_n - 1,
                             cfg.octave_scale[1], cfg.octave_scale[2])[k] :
                   k \in 1..cfg.octave_n} : sh[1] >= 1 /\ sh[2] >= 1

\* what net.blobs["data"] holds from the network's previous use
LeftoverBlob == Eval([c \in 1..Len(CAFFE_MEAN) |-> [y \in 1..1 |-> [x \in 1..1 |->
    Fin(77 * Unit)]]])

IdleEngine ==
    /\ e_pc = "idle" /\ e_cfg = <<>> /\ e_base = <<>> /\ e_octaves = <<>>
    /\ e_detail = <<>> /\ e_src = <<>> /\ e_octave = 0 /\ e_i = 0
    /\ e_shift = <<0, 0>> /\ e_inflight = 0 /\ e_steps = 0 /\ e_log = <<>>
    /\ e_result = <<>>

EngineInit ==
    /\ e_pc = "start"
    /\ e_cfg \in EngineConfigs
    /\ \E kind \in EngineContents, sh \in EngineShapes :
           /\ Buildable(sh[1], sh[2], e_cfg)
           /\ e_base = Image(kind, sh[1], sh[2])
    /\ e_octaves = <<>> /\ e_detail = <<>> /\ e_src = LeftoverBlob
    /\ e_octave = 0 /\ e_i = 0 /\ e_shift = <<0, 0>> /\ e_inflight = 0
    /\ e_steps = 0 /\ e_log = <<>> /\ e_result = <<>>

\* lines 96-113
EngBuild ==
    /\ e_pc = "start"
    /\ e_octaves' = BuildOctaves(<<_preprocess(e_base)>>, e_cfg.octave_n - 1,
                                 e_cfg.octave_scale[1], e_cfg.octave_scale[2])
    /\ e_detail' = ZerosLike(e_octaves'[Len(e_octaves')])
    /\ e_octave' = 0
    /\ e_pc' = "level"
    /\ UNCHANGED <<e_cfg, e_base, e_src, e_i, e_shift, e_inflight, e_steps, e_log,
                   e_result>>
    /\ UNCHANGED notEng

\* lines 115-120
EngUpscale ==
    /\ e_pc = "level"
    /\ LET octave_base == Level(e_octaves, e_octave)
       IN  e_detail' = IF e_octave > 0
                       THEN UpscaleDetail(e_detail, Rows(octave_base), Cols(octave_base))
                       ELSE e_detail
    /\ e_pc' = "bind"
    /\ UNCHANGED <<e_cfg, e_base, e_octaves, e_src, e_octave, e_i, e_shift,
                   e_inflight, e_steps, e_log, e_result>>
    /\ UNCHANGED notEng

\* lines 122-123: src.reshape and src.data[0] = octave_base + detail
EngBind ==
    /\ e_pc = "bind"
    /\ e_src' = BindInput(e_src, Level(e_octaves, e_octave), e_detail)
    /\ e_i' = 0
    /\ e_pc' = "steps"
    /\ UNCHANGED <<e_cfg, e_base, e_octaves, e_detail, e_octave, e_shift,
                   e_inflight, e_steps, e_log, e_result>>
    /\ UNCHANGED notEng

\* line 126 into _make_step, lines 63-73: the jitter is drawn and applied and
\* the network is called
EngStepBegin ==
    /\ e_pc = "steps"
    /\ MoreSteps(e_i, e_cfg.iter_n)
    /\ \E o \in EngineDraws :
           /\ e_shift' = o
           /\ e_src' = Jitter(e_src, o[1], o[2])
    /\ e_inflight' = e_inflight + 1
    /\ e_pc' = "inflight"
    /\ UNCHANGED <<e_cfg, e_base, e_octaves, e_detail, e_octave, e_i, e_steps,
                   e_log, e_result>>
    /\ UNCHANGED notEng

\* lines 74-82 and 129-132: the network has returned its gradient
EngStepEnd ==
    /\ e_pc = "inflight"
    /\ LET g == GradOf(e_cfg.oracle, e_src)
           stepped == Unjitter(Ascend(e_src, g), e_shift[1], e_shift[2])
       IN  e_src' = IF e_cfg.clip THEN Clip(stepped) ELSE stepped
    /\ e_inflight' = e_inflight - 1
    /\ e_i' = e_i + 1
    /\ e_steps' = e_steps + 1
    /\ e_pc' = "steps"
    /\ UNCHANGED <<e_cfg, e_base, e_octaves, e_detail, e_octave, e_shift, e_log,
                   e_result>>
    /\ UNCHANGED notEng

\* line 135, and the loop of line 115 moving on
EngEndOctave ==
    /\ e_pc = "steps"
    /\ ~MoreSteps(e_i, e_cfg.iter_n)
    /\ e_detail' = TSub(e_src, Level(e_octaves, e_octave))
    /\ e_log' = Append(e_log, [level |-> Len(e_octaves) - e_octave,
                               shape |-> Shape(e_src), steps |-> e_i])
    /\ IF e_octave + 1 < Len(e_octaves)
       THEN e_octave' = e_octave + 1 /\ e_pc' = "level"
       ELSE e_octave' = e_octave /\ e_pc' = "return"
    /\ UNCHANGED <<e_cfg, e_base, e_octaves, e_src, e_i, e_shift, e_inflight,
                   e_steps, e_result>>
    /\ UNCHANGED notEng

\* lines 138-139
EngReturn ==
    /\ e_pc = "return"
    /\ e_result' = _deprocess(e_src)
    /\ e_pc' = "done"
    /\ UNCHANGED <<e_cfg, e_base, e_octaves, e_detail, e_src, e_octave, e_i,
                   e_shift, e_inflight, e_steps, e_log>>
    /\ UNCHANGED notEng

-----------------------------------------------------------------------------
(* _deepdream as one call: the same lines 95-139, for a network blob `src`, a *)
(* base image, the settings and the sequence of jitter draws its steps make   *)

\* lines 125-132: the steps of one level
RECURSIVE RunSteps(_, _, _, _)
RunSteps(src, i, draws, cfg) ==
    IF ~MoreSteps(i, cfg.iter_n) \/ draws = <<>> THEN [src |-> src, draws |-> draws]
    ELSE RunSteps(_make_step(src, draws[1][1], draws[1][2],
                             GradOf(cfg.oracle, src), cfg.clip),
                  i + 1, Tail(draws), cfg)

\* lines 115-135: the levels from `octave` on
RECURSIVE RunOctaves(_, _, _, _, _, _)
RunOctaves(octaves, octave, detail, src, draws, cfg) ==
    LET octave_base == Level(octaves, octave)
        upscaled == IF octave > 0
                    THEN UpscaleDetail(detail, Rows(octave_base), Cols(octave_base))
                    ELSE detail
        after == RunSteps(BindInput(src, octave_base, upscaled), 0, draws, cfg)
    IN  IF octave + 1 < Len(octaves)
        THEN RunOctaves(octaves, octave + 1, TSub(after.src, octave_base),
                        after.src, after.draws, cfg)
        ELSE after.src

\* the image returned at line 139 and the data left in net.blobs["data"]
_deepdream(src, base_img, cfg, draws) ==
    LET octaves == BuildOctaves(<<_preprocess(base_img)>>, cfg.octave_n - 1,
                                cfg.octave_scale[1], cfg.octave_scale[2])
        final == RunOctaves(octaves, 0, ZerosLike(octaves[Len(octaves)]), src,
                            draws, cfg)
    IN  [img |-> _deprocess(final), src |-> final]

-----------------------------------------------------------------------------
(* deepdream_video, lines 286-324 *)

\* np.uint8 of one float sample.  In range it truncates; NaN and values out of
\* range are undefined in the C cast numpy makes: the build either wraps or
\* saturates (cast), and gives 0 for NaN.
Uint8(a, cast) ==
    IF a.nan THEN Fin(0)
    ELSE LET p == IF a.v >= 0 THEN a.v \div Unit ELSE -((-a.v) \div Unit)
         IN  IF p \in 0..PixelMax THEN Fin(p * Unit)
             ELSE IF cast = "wrap" THEN Fin((p % (PixelMax + 1)) * Unit)
             ELSE Fin(Min(Max(p, 0), PixelMax) * Unit)

\* the image np.float32(img_open(f)) loads after img_fromarray(np.uint8(img)).save(f)
Saved(img, cast) ==
    [y \in 1..Len(img) |-> [x \in 1..Len(img[1]) |-> [c \in 1..Len(img[1][1]) |->
        Uint8(img[y][x][c], cast)]]]

Perms(n) == {s \in [1..n -> 1..n] : \A i, j \in 1..n : i # j => s[i] # s[j]}

VideoShape == <<2, 3>>
\* the jitter draws of one engine call, one <<ox, oy>> per step
VideoDrawSeqs(steps) == {[k \in 1..steps |-> o] : o \in {<<0, 0>>, <<1, 0>>}}
\* the cast matters only for samples out of range, which need clip = False
VideoConfigs ==
    {cfg \in [iter_n : {1}, octave_n : {1, 2}, octave_scale : {<<7, 5>>},
              clip : BOOLEAN, oracle : {"hot"}, cast : {"wrap", "saturate"}] :
         cfg.clip => cfg.cast = "wrap"}

IdleVideo ==
    /\ v_pc = "idle" /\ v_cfg = <<>> /\ v_images = <<>> /\ v_k = 0 /\ v_disk = <<>>
    /\ v_orig = <<>> /\ v_net = <<>> /\ v_draws = <<>> /\ v_out = <<>>
    /\ v_writes = <<>>

\* v_orig: the frames ffmpeg will extract from the video, img_0001.jpg on;
\* the first frame is the ramp, the later ones are any of the contents
VideoInit ==
    /\ v_pc = "start"
    /\ v_cfg \in VideoConfigs
    /\ \E n \in 1..MaxFrames :
           /\ v_orig \in {o \in [1..n -> {Image(kind, VideoShape[1], VideoShape[2]) :
                                              kind \in EngineContents}] :
                              o[1] = Image("ramp", VideoShape[1], VideoShape[2])}
           /\ v_draws = [f \in 1..n |-> <<>>]
           /\ v_out = [f \in 1..n |-> <<>>]
           /\ v_writes = [f \in 1..n |-> 0]
    /\ v_images = <<>> /\ v_k = 0 /\ v_disk = <<>> /\ v_net = <<>>

\* lines 298-299
VideoLoadNet ==
    /\ v_pc = "start"
    /\ v_net' = LeftoverBlob
    /\ v_pc' = "extract"
    /\ UNCHANGED <<v_cfg, v_images, v_k, v_disk, v_orig, v_draws, v_out, v_writes>>
    /\ UNCHANGED notVideo

\* lines 301-305: the frames are on disk, listdir gives their names in any order
VideoExtract ==
    /\ v_pc = "extract"
    /\ v_disk' = v_orig
    /\ v_images' \in Perms(Len(v_orig))
    /\ v_k' = 0
    /\ v_pc' = "frames"
    /\ UNCHANGED <<v_cfg, v_orig, v_net, v_draws, v_out, v_writes>>
    /\ UNCHANGED notVideo

\* lines 308-320: one pass of the loop
VideoFrame ==
    /\ v_pc = "frames"
    /\ v_k < Len(v_images)
    /\ LET image == v_images[v_k + 1]
       IN  \E draws \in VideoDrawSeqs(v_cfg.octave_n * v_cfg.iter_n) :
               LET run == _deepdream(v_net, v_disk[image], v_cfg, draws)
               IN  /\ v_net' = run.src
                   /\ v_out' = [v_out EXCEPT ![image] = run.img]
                   /\ v_disk' = [v_disk EXCEPT ![image] = Saved(run.img, v_cfg.cast)]
                   /\ v_draws' = [v_draws EXCEPT ![image] = draws]
                   /\ v_writes' = [v_writes EXCEPT ![image] = @ + 1]
    /\ v_k' = v_k + 1
    /\ UNCHANGED <<v_pc, v_cfg, v_images, v_orig>>
    /\ UNCHANGED notVideo

\* lines 322-324
VideoCreate ==
    /\ v_pc = "frames"
    /\ v_k >= Len(v_images)
    /\ v_pc' = "done"
    /\ UNCHANGED <<v_cfg, v_images, v_k, v_disk, v_orig, v_net, v_draws, v_out,
                   v_writes>>
    /\ UNCHANGED notVideo

-----------------------------------------------------------------------------
(* The output file name, lines 252-254 and 258-260.  A string is a sequence   *)
(* of one-character strings.                                                   *)

\* The set the pattern '[\\/:"*?<>|]+' matches one character of.  The Python
\* literal is not raw: its \\ is one backslash, and that backslash escapes the
\* / after it, so the class holds / : " * ? < > | and no backslash.
PatternClass == {"/", ":", "\"", "*", "?", "<", ">", "|"}

RECURSIVE DropRun(_)
DropRun(s) ==
    IF s # <<>> /\ s[1] \in PatternClass THEN DropRun(Tail(s)) ELSE s

\* re.sub('[\\/:"*?<>|]+', "_", end): every maximal run of class characters
\* becomes one underscore
RECURSIVE Sanitize(_)
Sanitize(s) ==
    IF s = <<>> THEN <<>>
    ELSE IF s[1] \in PatternClass THEN <<"_">> \o Sanitize(DropRun(s))
    ELSE <<s[1]>> \o Sanitize(Tail(s))

\* str.rfind: the last index of ch in s, 0 when there is none
LastIndex(s, ch) ==
    IF \E k \in 1..Len(s) : s[k] = ch
    THEN CHOOSE k \in 1..Len(s) : s[k] = ch /\ \A j \in (k + 1)..Len(s) : s[j] # ch
    ELSE 0

\* path.splitext(p)[0]: p up to the last dot of its last component, unless
\* only dots stand between the separator and that dot
Stem(p) ==
    LET sepIndex == LastIndex(p, "/")
        dotIndex == LastIndex(p, ".")
    IN  IF dotIndex > sepIndex
           /\ \E k \in (sepIndex + 1)..(dotIndex - 1) : p[k] # "."
        THEN SubSeq(p, 1, dotIndex - 1)
        ELSE p

Digit(d) == <<"0", "1", "2", "3", "4", "5", "6", "7", "8", "9">>[d + 1]
RECURSIVE Decimal(_)
Decimal(n) == IF n < 10 THEN <<Digit(n)>> ELSE Decimal(n \div 10) \o <<Digit(n % 10)>>
RECURSIVE PadZero(_, _)
PadZero(s, width) == IF Len(s) >= width THEN s ELSE PadZero(<<"0">> \o s, width)
\* "{:03d}".format(i)
Format03d(i) == PadZero(Decimal(i), 3)

\* a name that leaves the iteration index out
OutNameNoIndex(img_path, end, i) ==
    Stem(img_path) \o <<"_">> \o Sanitize(end) \o <<".", "j", "p", "g">>

\* "{}_{}_{:03d}.jpg".format(path.splitext(img_path)[0], re.sub(...), i)
OutName(img_path, end, i) ==
    Stem(img_path) \o <<"_">> \o Sanitize(end) \o <<"_">> \o Format03d(i)
        \o <<".", "j", "p", "g">>

LayerAlphabet == {"a", "/", "\\", ":"}
LayerNames == UNION {[1..k -> LayerAlphabet] : k \in 0..MaxLayerLen}
NamePaths == {<<"i", ".", "j">>, <<"d", ".", "d", "/", "i">>, <<".", "h">>,
              <<"a", ".", "b", ".", "j">>}
NameIndexes == {0, 7, 42, 999, 1000}

IdleName ==
    /\ n_pc = "idle" /\ n_path = <<>> /\ n_end = <<>> /\ n_i = 0 /\ n_name = <<>>

NameInit ==
    /\ n_pc = "start"
    /\ n_path \in NamePaths
    /\ n_end \in LayerNames
    /\ n_i \in NameIndexes
    /\ n_name = <<>>

\* lines 252-254
NameFormat ==
    /\ n_pc = "start"
    /\ n_name' = OutName(n_path, n_end, n_i)
    /\ n_pc' = "done"
    /\ UNCHANGED <<n_path, n_end, n_i>>
    /\ UNCHANGED notName

-----------------------------------------------------------------------------
(* _select_network, list_layers, and the entries of deepdream and             *)
(* deepdream_video, lines 32-49, 170-174, 195-208, 297-299                    *)

NoNetwork == [none |-> TRUE, NET_FN |-> "", PARAM_FN |-> ""]

\* lines 32-49: the else branch writes a message and falls off the end of the
\* function, which returns None
_select_network(netname) ==
    CASE netname = "bvlc_googlenet" ->
             [none |-> FALSE, NET_FN |-> "deploy.prototxt",
              PARAM_FN |-> "bvlc_googlenet.caffemodel"]
      [] netname = "googlenet_place205" ->
             [none |-> FALSE, NET_FN |-> "deploy_places205.protxt",
              PARAM_FN |-> "googlelet_places205_train_iter_2400000.caffemodel"]
      [] OTHER -> NoNetwork

Networks == {"bvlc_googlenet", "googlenet_place205", "resnet50"}
Operations == {"deepdream", "deepdream_video", "list_layers"}
DreamPaths == {<<"i", ".", "j">>, <<"d", ".", "d", "/", "i">>}
DreamLayers == {<<"4", "c", "/", "o">>, <<"c">>}

DreamConfigs ==
    [op : Operations, network : Networks, gpu : BOOLEAN, gif : BOOLEAN,
     reverse : BOOLEAN, zoom : BOOLEAN, irange : 0..MaxRange,
     img_path : DreamPaths, end : DreamLayers]

\* a file's content: the input image after `dreams` engine calls and `zooms`
\* affine transforms, or an animation of the listed files
Picture(dreams, zooms) ==
    [kind |-> "image", dreams |-> dreams, zooms |-> zooms, frames |-> <<>>]
Animation(frames) == [kind |-> "gif", dreams |-> 0, zooms |-> 0, frames |-> frames]

Write(disk, name, content) ==
    [n \in DOMAIN disk \cup {name} |-> IF n = name THEN content ELSE disk[n]]

\* img_pool[::-1]
Reverse(pool) == [k \in 1..Len(pool) |-> pool[Len(pool) + 1 - k]]

GifName(img_path) == img_path \o <<".", "g", "i", "f">>
VideoFrameName == <<"v", "_", "i", "m", "a", "g", "e", "s", "/", "1">>

IdleDream ==
    /\ d_pc = "idle" /\ d_cfg = <<>> /\ d_i = 0 /\ d_img = <<>> /\ d_disk = <<>>
    /\ d_img_pool = <<>> /\ d_net = FALSE /\ d_device = FALSE /\ d_error = "none"
    /\ d_saves = 0

\* only deepdream reads gpu, gif, reverse, zoom, irange, img_path and end, and
\* reverse only with gif
DreamInit ==
    /\ d_cfg \in DreamConfigs
    /\ d_cfg.reverse => d_cfg.gif
    /\ d_cfg.op # "deepdream" =>
           /\ ~d_cfg.gpu /\ ~d_cfg.gif /\ ~d_cfg.zoom /\ d_cfg.irange = 0
           /\ d_cfg.img_path = <<"i", ".", "j">> /\ d_cfg.end = <<"c">>
    /\ d_pc = IF d_cfg.op = "deepdream" THEN "open" ELSE "select"
    /\ d_i = 0
    /\ d_img = Picture(0, 0)
    /\ d_disk = [n \in {d_cfg.img_path} |-> Picture(0, 0)]
    /\ d_img_pool = <<>>
    /\ d_net = FALSE /\ d_device = FALSE /\ d_error = "none" /\ d_saves = 0

Running == d_error = "none"

\* lines 195-197
DreamOpen ==
    /\ Running /\ d_pc = "open"
    /\ d_img' = d_disk[d_cfg.img_path]
    /\ d_pc' = "gpu"
    /\ UNCHANGED <<d_cfg, d_i, d_disk, d_img_pool, d_net, d_device, d_error, d_saves>>
    /\ UNCHANGED notDream

\* lines 199-202
DreamGpu ==
    /\ Running /\ d_pc = "gpu"
    /\ d_device' = IF d_cfg.gpu THEN TRUE ELSE d_device
    /\ d_pc' = "select"
    /\ UNCHANGED <<d_cfg, d_i, d_img, d_disk, d_img_pool, d_net, d_error, d_saves>>
    /\ UNCHANGED notDream

\* lines 205, 172, 298: the four names are unpacked from what _select_network
\* returns; unpacking None raises TypeError
SelectNetwork ==
    /\ Running /\ d_pc = "select"
    /\ IF _select_network(d_cfg.network).none
       THEN d_error' = "TypeError" /\ d_pc' = d_pc
       ELSE d_error' = d_error /\ d_pc' = "classifier"
    /\ UNCHANGED <<d_cfg, d_i, d_img, d_disk, d_img_pool, d_net, d_device, d_saves>>
    /\ UNCHANGED notDream

\* lines 206-208, 173, 299
LoadClassifier ==
    /\ Running /\ d_pc = "classifier"
    /\ d_net' = TRUE
    /\ d_img_pool' = IF d_cfg.op = "deepdream" THEN <<d_cfg.img_path>> ELSE d_img_pool
    /\ d_pc' = CASE d_cfg.op = "deepdream" -> "loop"
                 [] d_cfg.op = "deepdream_video" -> "video"
                 [] OTHER -> "keys"
    /\ UNCHANGED <<d_cfg, d_i, d_img, d_disk, d_device, d_error, d_saves>>
    /\ UNCHANGED notDream

\* line 174
ListKeys ==
    /\ Running /\ d_pc = "keys"
    /\ d_pc' = "done"
    /\ UNCHANGED <<d_cfg, d_i, d_img, d_disk, d_img_pool, d_net, d_device, d_error,
                   d_saves>>
    /\ UNCHANGED notDream

\* lines 301-324, as far as this entry is concerned: frames are written
VideoRun ==
    /\ Running /\ d_pc = "video"
    /\ d_disk' = Write(d_disk, VideoFrameName, Picture(1, 0))
    /\ d_pc' = "done"
    /\ UNCHANGED <<d_cfg, d_i, d_img, d_img_pool, d_net, d_device, d_error, d_saves>>
    /\ UNCHANGED notDream

-----------------------------------------------------------------------------
(* The zoom loop of deepdream, lines 234-283 *)

\* line 236: for i in range(irange)
LoopContinues(i, irange) == i < irange

\* a frame list that grows at its head
RecordFramePrepend(pool, name, gif) == IF gif THEN <<name>> \o pool ELSE pool

\* lines 256-261
RecordFrame(pool, name, gif) == IF gif THEN Append(pool, name) ELSE pool

\* lines 242-250: the engine call
DreamEngine ==
    /\ Running /\ d_pc = "loop"
    /\ LoopContinues(d_i, d_cfg.irange)
    /\ d_img' = Picture(d_img.dreams + 1, d_img.zooms)
    /\ d_pc' = "save"
    /\ UNCHANGED <<d_cfg, d_i, d_disk, d_img_pool, d_net, d_device, d_error, d_saves>>
    /\ UNCHANGED notDream

\* lines 251-255
DreamSave ==
    /\ Running /\ d_pc = "save"
    /\ d_disk' = Write(d_disk, OutName(d_cfg.img_path, d_cfg.end, d_i), d_img)
    /\ d_saves' = d_saves + 1
    /\ d_pc' = "record"
    /\ UNCHANGED <<d_cfg, d_i, d_img, d_img_pool, d_net, d_device, d_error>>
    /\ UNCHANGED notDream

\* lines 256-262
DreamRecord ==
    /\ Running /\ d_pc = "record"
    /\ d_img_pool' = RecordFrame(d_img_pool, OutName(d_cfg.img_path, d_cfg.end, d_i),
                                 d_cfg.gif)
    /\ d_pc' = "zoom"
    /\ UNCHANGED <<d_cfg, d_i, d_img, d_disk, d_net, d_device, d_error, d_saves>>
    /\ UNCHANGED notDream

\* lines 263-268, and the loop's next i
DreamZoom ==
    /\ Running /\ d_pc = "zoom"
    /\ d_img' = IF d_cfg.zoom THEN Picture(d_img.dreams, d_img.zooms + 1) ELSE d_img
    /\ d_i' = d_i + 1
    /\ d_pc' = "loop"
    /\ UNCHANGED <<d_cfg, d_disk, d_img_pool, d_net, d_device, d_error, d_saves>>
    /\ UNCHANGED notDream

\* the loop of line 235 is exhausted
DreamLoopEnd ==
    /\ Running /\ d_pc = "loop"
    /\ ~LoopContinues(d_i, d_cfg.irange)
    /\ d_pc' = "assemble"
    /\ UNCHANGED <<d_cfg, d_i, d_img, d_disk, d_img_pool, d_net, d_device, d_error,
                   d_saves>>
    /\ UNCHANGED notDream

\* lines 269-283
DreamAssemble ==
    /\ Running /\ d_pc = "assemble"
    /\ d_disk' = IF d_cfg.gif
                 THEN Write(d_disk, GifName(d_cfg.img_path),
                            Animation(IF d_cfg.reverse THEN Reverse(d_img_pool)
                                      ELSE d_img_pool))
                 ELSE d_disk
    /\ d_pc' = "done"
    /\ UNCHANGED <<d_cfg, d_i, d_img, d_img_pool, d_net, d_device, d_error, d_saves>>
    /\ UNCHANGED notDream

\* ctrl-C (line 234) between two statements of the loop: KeyboardInterrupt
\* propagates out of deepdream
DreamInterrupt ==
    /\ Running /\ d_pc \in {"loop", "save", "record", "zoom"}
    /\ d_error' = "KeyboardInterrupt"
    /\ UNCHANGED <<d_pc, d_cfg, d_i, d_img, d_disk, d_img_pool, d_net, d_device,
                   d_saves>>
    /\ UNCHANGED notDream

-----------------------------------------------------------------------------
(* Specifications *)

\* each operation starts from its own initial state, the others standing idle
StepStart == StepInit /\ IdleEngine /\ IdleVideo /\ IdleDream /\ IdleName
StepNext == StepShift \/ StepAscend \/ StepUnshift \/ StepClip
SpecStep == StepStart /\ [][StepNext]_vars

EngineStart == EngineInit /\ IdleStep /\ IdleVideo /\ IdleDream /\ IdleName
EngNext ==
    \/ EngBuild \/ EngUpscale \/ EngBind \/ EngStepBegin \/ EngStepEnd
    \/ EngEndOctave \/ EngReturn
SpecEngine == EngineStart /\ [][EngNext]_vars

VideoStart == VideoInit /\ IdleStep /\ IdleEngine /\ IdleDream /\ IdleName
VideoNext == VideoLoadNet \/ VideoExtract \/ VideoFrame \/ VideoCreate
SpecVideo == VideoStart /\ [][VideoNext]_vars

DreamStart == DreamInit /\ IdleStep /\ IdleEngine /\ IdleVideo /\ IdleName
DreamNext ==
    \/ DreamOpen \/ DreamGpu \/ SelectNetwork \/ LoadClassifier \/ ListKeys
    \/ VideoRun \/ DreamEngine \/ DreamSave \/ DreamRecord \/ DreamZoom
    \/ DreamLoopEnd \/ DreamAssemble \/ DreamInterrupt
SpecDream == DreamStart /\ [][DreamNext]_vars

NameStart == NameInit /\ IdleStep /\ IdleEngine /\ IdleVideo /\ IdleDream
NameNext == NameFormat
SpecName == NameStart /\ [][NameNext]_vars

Init == StepStart \/ EngineStart \/ VideoStart \/ DreamStart \/ NameStart
Next == StepNext \/ EngNext \/ VideoNext \/ DreamNext \/ NameNext
Spec == Init /\ [][Next]_vars

-----------------------------------------------------------------------------
(* The zoom loop's output files *)

\* the dream images on disk: every image file but the input
DreamFiles == {n \in DOMAIN d_disk : d_disk[n].kind = "image" /\ n # d_cfg.img_path}
\* the names of the first k iterations
Persisted(k) == {OutName(d_cfg.img_path, d_cfg.end, j) : j \in 0..(k - 1)}

C1_Inv ==
    d_cfg.op = "deepdream" /\ d_pc \in {"loop", "save", "record", "zoom"} =>
        LET saved == IF d_pc \in {"loop", "save"} THEN d_i ELSE d_i + 1
        IN  /\ DreamFiles = Persisted(saved)
            /\ Cardinality(DreamFiles) = saved
            /\ d_saves = saved
            /\ d_pc \in {"record", "zoom"} =>
                   d_disk[OutName(d_cfg.img_path, d_cfg.end, d_i)] = d_img
            /\ \A j \in 0..(saved - 1) :
                   d_disk[OutName(d_cfg.img_path, d_cfg.end, j)] =
                       Picture(j + 1, IF d_cfg.zoom THEN j ELSE 0)

C1_Keep == \A n \in DOMAIN d_disk : n \in DOMAIN d_disk' /\ d_disk'[n] = d_disk[n]

\* C1: wherever the zoom loop stands, and so wherever ctrl-C stops it, the
\* dream images on disk are exactly those of the iterations whose save has
\* run, indexes 0..k with k + 1 of them once iteration k has saved; the image
\* of iteration i is on disk, equal to the engine's result, before the zoom
\* and before the next engine call; and no step ever removes or changes a
\* file that is on disk.
C1_InterruptKeepsImages == []C1_Inv /\ [][C1_Keep]_vars

\* ctrl-C after iteration 1 is complete and before iteration 2 saves
C1_Witness ==
    /\ d_error = "KeyboardInterrupt" /\ d_pc \in {"loop", "save"} /\ d_i = 2
    /\ Cardinality(DreamFiles) = 2

\* C2: when the loop of a deepdream run with irange = R has run to its end,
\* exactly R dream images are on disk, those named with the indexes 0..R-1;
\* img_pool is the input path followed, with gif, by those R names in
\* iteration order (length R + 1), and the input path alone without gif.
C2_FrameCount ==
    d_cfg.op = "deepdream" /\ d_pc \in {"assemble", "done"} =>
        /\ DreamFiles = Persisted(d_cfg.irange)
        /\ Cardinality(DreamFiles) = d_cfg.irange
        /\ d_saves = d_cfg.irange
        /\ d_img_pool =
               IF d_cfg.gif
               THEN <<d_cfg.img_path>> \o
                    [k \in 1..d_cfg.irange |->
                        OutName(d_cfg.img_path, d_cfg.end, k - 1)]
               ELSE <<d_cfg.img_path>>

C2_Witness ==
    /\ d_cfg.op = "deepdream" /\ d_pc = "assemble" /\ d_cfg.gif
    /\ d_cfg.irange >= 2 /\ Len(d_img_pool) = d_cfg.irange + 1

-----------------------------------------------------------------------------
(* The file name *)

ClaimedClass == {"\\", "/", ":", "*", "?", "\"", "<", ">", "|"}
ClaimedSanitize(s) == [k \in 1..Len(s) |-> IF s[k] \in ClaimedClass THEN "_" ELSE s[k]]

\* C3: the name of the image of iteration i is the input path without its
\* extension, "_", the layer name with each of \ / : * ? " < > | replaced by
\* "_" and every other character kept, "_", i padded with zeros to three
\* digits, ".jpg".
C3_NameAsDocumented ==
    n_pc = "done" =>
        n_name = Stem(n_path) \o <<"_">> \o ClaimedSanitize(n_end) \o <<"_">>
                     \o Format03d(n_i) \o <<".", "j", "p", "g">>

-----------------------------------------------------------------------------
(* The network selector *)

\* C4: with a network name _select_network does not know, the operation
\* never constructs the Classifier, never selects a GPU, writes no file and
\* does not run to its end.
C4_UnknownNetworkFailsFirst ==
    _select_network(d_cfg.network).none =>
        /\ ~d_net
        /\ ~d_device
        /\ DOMAIN d_disk = {d_cfg.img_path}
        /\ d_pc # "done"

-----------------------------------------------------------------------------
(* The ascent step *)

InClipRange(t) ==
    \A c \in 1..Chan(t), y \in 1..Rows(t), x \in 1..Cols(t) :
        /\ ~t[c][y][x].nan
        /\ t[c][y][x].v >= ClipLo(c)
        /\ t[c][y][x].v <= ClipHi(c)

\* C5: with clip, every sample of the tensor a step leaves behind lies in
\* [-m_c, 255 - m_c] for its channel's mean m_c, whatever the tensor held,
\* whatever offsets were drawn and whatever gradient the network returned.
C5_ClipBound == st_pc = "done" /\ st_clip => InClipRange(st_data)

\* C8: the tensor shifted by (ox, oy) and then by (-ox, -oy) is the tensor
\* before the shift, for every draw in [-jitter, jitter] and every shape,
\* offsets larger than a side included; and what _make_step holds after its
\* un-shift is its input plus the ascent update moved back by the same offsets.
C8_JitterRoundTrip ==
    /\ st_pc = "shifted" => Jitter(st_data, -st_ox, -st_oy) = st_in
    /\ st_pc = "unshifted" =>
           st_data = TAdd(st_in, Jitter(AscentDelta(st_g), -st_ox, -st_oy))

C8_Witness ==
    /\ st_pc = "shifted" /\ st_data # st_in
    /\ Abs(st_ox) > Cols(st_in) /\ Abs(st_oy) > Rows(st_in)

-----------------------------------------------------------------------------
(* The octave pyramid engine *)

\* C6: whenever the detail buffer is about to be added to a level's base
\* data, its height and width are that level's; at the first level processed
\* it is the zero tensor of the coarsest level's shape.
C6_DetailShape ==
    e_pc = "bind" =>
        /\ Shape(e_detail) = Shape(Level(e_octaves, e_octave))
        /\ e_octave = 0 => e_detail = ZerosLike(e_octaves[Len(e_octaves)])

\* a level after the first, whose shape differs from the level before it
C6_Witness ==
    /\ e_pc = "bind" /\ e_octave > 0
    /\ Shape(Level(e_octaves, e_octave)) # Shape(Level(e_octaves, e_octave - 1))

\* C7: a two-octave run whose network returns the all-zero gradient at every
\* step returns the image it was given, and leaves no NaN in the input blob.
C7_InertOracleNoOp ==
    e_pc = "done" /\ e_cfg.octave_n = 2 /\ e_cfg.oracle = "zero" =>
        /\ e_result = e_base
        /\ ~HasNaN(e_src)

C10_Inv ==
    /\ e_pc # "start" => Len(e_octaves) = e_cfg.octave_n
    /\ e_inflight = IF e_pc = "inflight" THEN 1 ELSE 0
    /\ e_pc \in {"steps", "inflight"} =>
           /\ Shape(e_src) = Shape(Level(e_octaves, e_octave))
           /\ e_i <= e_cfg.iter_n
           /\ e_pc = "inflight" => e_i < e_cfg.iter_n
    /\ e_pc = "steps" /\ e_i = 0 =>
           e_src = TAdd(Level(e_octaves, e_octave), e_detail)
    /\ \A k \in 1..Len(e_log) :
           /\ e_log[k].level = e_cfg.octave_n - k + 1
           /\ e_log[k].steps = e_cfg.iter_n
           /\ e_log[k].shape = Shape(e_octaves[e_log[k].level])
    /\ e_pc \in {"level", "bind", "steps", "inflight"} => Len(e_log) = e_octave
    /\ e_steps = Len(e_log) * e_cfg.iter_n
                     + (IF e_pc \in {"steps", "inflight"} THEN e_i ELSE 0)
    /\ e_pc = "done" =>
           /\ Len(e_log) = e_cfg.octave_n
           /\ e_steps = e_cfg.octave_n * e_cfg.iter_n
           /\ Len(e_result) = Len(e_base)
           /\ Len(e_result[1]) = Len(e_base[1])

C10_DetailStep ==
    e_detail' # e_detail =>
        \/ e_pc \in {"start", "level"}
        \/ e_pc = "steps" /\ e_i = e_cfg.iter_n

\* C10: a run with octave_n = N and iter_n = I builds N levels and processes
\* them from the last built to level 0; at each level the input blob has the
\* level's shape and holds level + detail before the first step, I steps are
\* made, one at a time, and the detail buffer changes only before the level's
\* first step and after its last; the run makes N * I steps and returns an
\* image of the input's height and width.
C10_CoarseToFine == []C10_Inv /\ [][C10_DetailStep]_vars

C10_Witness ==
    /\ e_pc = "done" /\ e_cfg.octave_n >= 2 /\ e_cfg.iter_n >= 2
    /\ e_steps = e_cfg.octave_n * e_cfg.iter_n
    /\ e_log[1].shape # e_log[Len(e_log)].shape

-----------------------------------------------------------------------------
(* The frame pipeline *)

\* what a frame becomes when the engine runs on it alone, on a network that
\* has processed nothing before
FrameAlone(f) == _deepdream(LeftoverBlob, v_orig[f], v_cfg, v_draws[f]).img

\* C9: every frame file is written at most once while the loop runs and
\* exactly once when it has ended, the set of frame files stays what ffmpeg
\* extracted, and what is written for a frame is what the engine returns for
\* that frame alone with the same jitter draws, whatever the order listdir
\* gave and whatever frames came before.
C9_FramesIndependent ==
    v_pc \in {"frames", "done"} =>
        /\ DOMAIN v_disk = DOMAIN v_orig
        /\ Cardinality({f \in DOMAIN v_orig : v_writes[f] = 1}) = v_k
        /\ v_pc = "done" => v_k = Len(v_orig)
        /\ \A f \in DOMAIN v_orig :
               /\ v_writes[f] \in {0, 1}
               /\ v_writes[f] = 0 => v_disk[f] = v_orig[f]
               /\ v_writes[f] = 1 =>
                      LET alone == FrameAlone(f)
                      IN  /\ v_out[f] = alone
                          /\ v_disk[f] = Saved(alone, v_cfg.cast)

\* two frames of different content, listed last first, both changed
C9_Witness ==
    /\ v_pc = "done" /\ Len(v_orig) >= 2
    /\ v_images[1] # 1
    /\ v_orig[1] # v_orig[2]
    /\ v_out[1] # v_orig[1] /\ v_out[2] # v_orig[2]

====
